---------------------------- MODULE Spec2Model ----------------------------
(***************************************************************************)
(* Role tracker backend: the persistence store (db.py), the search and     *)
(* scoring clients (scraper.py, scorer.py), the scrape orchestrator and    *)
(* its manual trigger (api.py) and the daily scheduled run (scheduler.py). *)
(*                                                                         *)
(* Texts returned by the external services are sequences of tokens:        *)
(*   "F"  a run of three backticks          "N"  a line feed               *)
(*   "S"  a blank                           "x"  a word that is not JSON   *)
(*   "[" "]" "{" "}" ","  the JSON punctuation                             *)
(*   "k"  an object key with its colon      "1"  a JSON scalar             *)
(***************************************************************************)
EXTENDS Integers, Sequences, FiniteSets, TLC

VARIABLES
    companies,   \* table companies: id -> row
    roles,       \* table roles: rows in insertion order
    logs,        \* table scrape_logs: rows in insertion order
    clock,       \* the database/wall clock (NOW(), datetime.utcnow())
    status,      \* api._scrape_status
    run,         \* orchestrator invocations: slot -> local state of the call
    resp,        \* HTTP status of the last trigger_scrape response (0: none yet)
    faults,      \* store operations that have failed so far
    outage,      \* the next store operation fails
    call         \* the pure-function call under check: its input and result

vars == <<companies, roles, logs, clock, status, run, resp, faults, outage, call>>

---------------------------------------------------------------------------
(* Bounds of the model *)

MaxTextLen == 4      \* length of an arbitrary service response text
MaxBatch == 2        \* roles in one score_roles_batch call

NumCompanies == 2    \* companies seeded
MaxClock == 2        \* instants the clock can take
MaxRoleRows == 2     \* rows of the roles table
MaxRuns == 2         \* orchestrator invocations, queued or started
MaxFaults == 1       \* store operations that fail

(* Program constants *)

SCORE_THRESHOLD == 80

CompanyNames == <<"Acme", "Bolt", "Cask", "Dune">>

---------------------------------------------------------------------------
(* Python string operations on token sequences *)

Whitespace == {"N", "S"}

RECURSIVE lstrip(_)
lstrip(s) ==
    IF s # <<>> /\ Head(s) \in Whitespace THEN lstrip(Tail(s)) ELSE s

RECURSIVE rstrip(_)
rstrip(s) ==
    IF s # <<>> /\ s[Len(s)] \in Whitespace
    THEN rstrip(SubSeq(s, 1, Len(s) - 1)) ELSE s

\* str.strip()
strip(s) == rstrip(lstrip(s))

\* str.startswith("```")
startswith_fence(s) == s # <<>> /\ Head(s) = "F"

\* str.split("\n"): the lines of s, at least one
RECURSIVE split_lines(_)
split_lines(s) ==
    IF \A i \in 1..Len(s) : s[i] # "N"
    THEN <<s>>
    ELSE LET i == CHOOSE j \in 1..Len(s) :
                      s[j] = "N" /\ \A h \in 1..(j - 1) : s[h] # "N"
         IN  <<SubSeq(s, 1, i - 1)>> \o split_lines(SubSeq(s, i + 1, Len(s)))

\* "\n".join(lines)
RECURSIVE join_lines(_)
join_lines(lines) ==
    IF lines = <<>> THEN <<>>
    ELSE IF Len(lines) = 1 THEN lines[1]
    ELSE lines[1] \o <<"N">> \o join_lines(Tail(lines))

\* lines[1:-1]
drop_first_last(lines) ==
    IF Len(lines) <= 2 THEN <<>> ELSE SubSeq(lines, 2, Len(lines) - 1)

\* the fence stripping both clients apply after strip()
strip_fence(content) ==
    IF startswith_fence(content)
    THEN join_lines(drop_first_last(split_lines(content)))
    ELSE content

\* str.find(t) + 1: the first position of t, 0 when absent
find(s, t) ==
    IF \E i \in 1..Len(s) : s[i] = t
    THEN CHOOSE i \in 1..Len(s) : s[i] = t /\ \A h \in 1..(i - 1) : s[h] # t
    ELSE 0

\* str.rfind(t) + 1: the last position of t, 0 when absent
rfind(s, t) ==
    IF \E i \in 1..Len(s) : s[i] = t
    THEN CHOOSE i \in 1..Len(s) : s[i] = t /\ \A h \in (i + 1)..Len(s) : s[h] # t
    ELSE 0

---------------------------------------------------------------------------
(* json.loads on token sequences.  A parse position of 0 is a syntax error. *)

no_whitespace(s) == SelectSeq(s, LAMBDA t : t \notin Whitespace)

RECURSIVE parse_value(_, _), parse_elements(_, _), parse_members(_, _)
parse_value(s, i) ==
    IF i = 0 \/ i > Len(s) THEN 0
    ELSE IF s[i] = "1" THEN i + 1
    ELSE IF s[i] = "[" THEN
        IF i + 1 <= Len(s) /\ s[i + 1] = "]" THEN i + 2 ELSE parse_elements(s, i + 1)
    ELSE IF s[i] = "{" THEN
        IF i + 1 <= Len(s) /\ s[i + 1] = "}" THEN i + 2 ELSE parse_members(s, i + 1)
    ELSE 0

parse_elements(s, i) ==
    LET j == parse_value(s, i) IN
    IF j = 0 \/ j > Len(s) THEN 0
    ELSE IF s[j] = "," THEN parse_elements(s, j + 1)
    ELSE IF s[j] = "]" THEN j + 1
    ELSE 0

parse_members(s, i) ==
    IF i > Len(s) \/ s[i] # "k" THEN 0
    ELSE LET j == parse_value(s, i + 1) IN
         IF j = 0 \/ j > Len(s) THEN 0
         ELSE IF s[j] = "," THEN parse_members(s, j + 1)
         ELSE IF s[j] = "}" THEN j + 1
         ELSE 0

\* whether json.loads(s) returns (otherwise it raises JSONDecodeError)
json_valid(s) ==
    LET t == no_whitespace(s) IN parse_value(t, 1) = Len(t) + 1

\* the value json.loads(s) returns: the document without its insignificant
\* whitespace, and the Python type of its top level
json_value(s) ==
    LET t == no_whitespace(s) IN
    [type |-> IF t[1] = "{" THEN "dict" ELSE IF t[1] = "[" THEN "list" ELSE "scalar",
     json |-> t]

---------------------------------------------------------------------------
(* Outcomes of a Python call: it returns a value or raises an exception *)

NoValue == [type |-> "none"]
Return(v) == [raised |-> FALSE, exc |-> "", value |-> v]
Raise(e) == [raised |-> TRUE, exc |-> e, value |-> NoValue]

\* An HTTP exchange with an external service: a non-2xx answer, a timeout or a
\* connection error makes requests.post / raise_for_status raise
TransportError == [ok |-> FALSE, text |-> <<>>]
Answer(text) == [ok |-> TRUE, text |-> text]

---------------------------------------------------------------------------
(* scorer.py *)

\* the zero-score result score_role substitutes for an unparsable response
ParseErrorResult ==
    [type |-> "dict", total_score |-> 0, breakdown |-> "{}",
     red_flags |-> "Failed to parse scoring response",
     recommendation |-> "Error", reasoning |-> "Could not parse Gemini response"]

\* the zero-score result score_roles_batch substitutes when score_role raises
ScoringErrorResult(e) ==
    [type |-> "dict", total_score |-> 0, breakdown |-> "{}",
     red_flags |-> "Scoring error", recommendation |-> "Error", reasoning |-> e]

\* score_role from the service's answer on: strip, fence strip, strict parse, and
\* on JSONDecodeError the substring from the first "{" to the last "}"
score_role(response) ==
    IF ~response.ok THEN Raise("HTTPError")
    ELSE LET content == strip_fence(strip(response.text))
             start == find(content, "{")
             end == rfind(content, "}")
         IN  IF json_valid(content) THEN Return(json_value(content))
             ELSE IF start # 0 /\ end >= start
                  THEN LET sub == SubSeq(content, start, end) IN
                       IF json_valid(sub) THEN Return(json_value(sub))
                       ELSE Raise("JSONDecodeError")
                  ELSE Return(ParseErrorResult)

\* one iteration of score_roles_batch's try block: role.get(...) raises
\* AttributeError on a role that is no dict, before score_role is called;
\* outcome is what the score_role call does for this role
score_call(role, outcome) ==
    IF role.type # "dict" THEN Raise("AttributeError") ELSE outcome

\* a batch that lets a failed role go without a result
RECURSIVE score_roles_batch_drops_failed(_, _)
score_roles_batch_drops_failed(batch, outcomes) ==
    IF batch = <<>> THEN Return(<<>>)
    ELSE LET r == score_call(Head(batch), Head(outcomes))
             rest == score_roles_batch_drops_failed(Tail(batch), Tail(outcomes)).value
         IN  Return((IF r.raised THEN <<>> ELSE <<[role |-> Head(batch), result |-> r.value]>>)
                    \o rest)

\* score_roles_batch: outcomes[i] is what score_role does when called for batch[i]
RECURSIVE score_roles_batch(_, _)
score_roles_batch(batch, outcomes) ==
    IF batch = <<>> THEN Return(<<>>)
    ELSE LET r == score_call(Head(batch), Head(outcomes))
             pair == [role |-> Head(batch),
                      result |-> IF r.raised THEN ScoringErrorResult(r.exc) ELSE r.value]
         IN  Return(<<pair>> \o score_roles_batch(Tail(batch), Tail(outcomes)).value)

---------------------------------------------------------------------------
(* scraper.py *)

EmptyList == <<"[", "]">>

\* a parser without the bracket-substring fallback
scrape_company_roles_no_fallback(response) ==
    IF ~response.ok THEN Raise("HTTPError")
    ELSE LET content == strip_fence(strip(response.text)) IN
         Return(IF json_valid(content) /\ json_value(content).type = "list"
                THEN json_value(content).json ELSE EmptyList)

\* the parsing half of scrape_company_roles: the roles as the JSON array parsed
scrape_company_roles(response) ==
    IF ~response.ok THEN Raise("HTTPError")
    ELSE LET content == strip_fence(strip(response.text))
             start == find(content, "[")
             end == rfind(content, "]")
         IN  IF json_valid(content)
             THEN Return(IF json_value(content).type = "list"
                         THEN json_value(content).json ELSE EmptyList)
             ELSE IF start # 0 /\ end >= start
                  THEN LET sub == SubSeq(content, start, end) IN
                       Return(IF json_valid(sub) THEN json_value(sub).json ELSE EmptyList)
                  ELSE Return(EmptyList)

---------------------------------------------------------------------------
(* db.py: the tables *)

NULL == "NULL"       \* SQL NULL / Python None in a text column
NoTime == 0          \* SQL NULL in a TIMESTAMP column; the clock starts at 1

\* "=" in a WHERE clause: never true when a side is NULL
sql_eq(a, b) == a # NULL /\ b # NULL /\ a = b

\* companies.json as seed_companies loads it
SeedCompanies ==
    [id \in 1..NumCompanies |->
        [id |-> id, name |-> CompanyNames[id], careers_url |-> "url",
         active |-> 1, last_scraped_at |-> NoTime]]

\* a progress text: "", "Scraping <company>...", "Scoring <n> roles from
\* <company>..." or "Done"
Progress(text, n, company) == [text |-> text, n |-> n, company |-> company]

IdleStatus ==
    [is_running |-> FALSE, current_company |-> NULL, progress |-> Progress("", 0, NULL)]

\* SELECT id FROM roles WHERE company_id = .. AND title = .. AND location = ..
matching_roles(table, company_id, title, location) ==
    {i \in 1..Len(table) :
        /\ table[i].company_id = company_id
        /\ sql_eq(table[i].title, title)
        /\ sql_eq(table[i].location, location)}

\* the UPDATE of upsert_role
updated_role(row, a, now) ==
    [row EXCEPT !.url = a.url, !.description = a.description,
                !.seniority = a.seniority, !.department = a.department,
                !.posted_date = a.posted_date, !.score = a.score,
                !.score_breakdown = a.score_breakdown, !.last_seen_at = now]

\* the INSERT of upsert_role; status and applied_at take the column defaults
inserted_role(id, a, now) ==
    [id |-> id, company_id |-> a.company_id, title |-> a.title, url |-> a.url,
     location |-> a.location, description |-> a.description,
     seniority |-> a.seniority, department |-> a.department,
     posted_date |-> a.posted_date, score |-> a.score,
     score_breakdown |-> a.score_breakdown, status |-> "new",
     first_seen_at |-> now, last_seen_at |-> now, applied_at |-> NoTime]

\* an upsert whose UPDATE rewrites the row as a fresh observation
upsert_role_resets_row(table, comps, a, now) ==
    LET found == matching_roles(table, a.company_id, a.title, a.location) IN
    IF found # {}
    THEN LET i == CHOOSE j \in found : \A h \in found : j <= h IN
         Return([table EXCEPT ![i] = inserted_role(table[i].id, a, now)])
    ELSE IF a.title = NULL \/ a.company_id \notin DOMAIN comps
         THEN Raise("IntegrityError")
         ELSE Return(Append(table, inserted_role(Len(table) + 1, a, now)))

\* upsert_role on the roles table; the INSERT fails on a NULL title (NOT NULL)
\* and on a company_id that references no company (REFERENCES companies(id))
upsert_role(table, comps, a, now) ==
    LET found == matching_roles(table, a.company_id, a.title, a.location) IN
    IF found # {}
    THEN LET i == CHOOSE j \in found : \A h \in found : j <= h IN
         Return([table EXCEPT ![i] = updated_role(table[i], a, now)])
    ELSE IF a.title = NULL \/ a.company_id \notin DOMAIN comps
         THEN Raise("IntegrityError")
         ELSE Return(Append(table, inserted_role(Len(table) + 1, a, now)))

\* an update to applied that leaves applied_at alone
mark_role_applied_without_stamp(table, role_id, now) ==
    [i \in 1..Len(table) |->
        IF table[i].id = role_id
        THEN [table[i] EXCEPT !.status = "applied"]
        ELSE table[i]]

\* UPDATE roles SET status = 'applied', applied_at = NOW() WHERE id = ..
mark_role_applied(table, role_id, now) ==
    [i \in 1..Len(table) |->
        IF table[i].id = role_id
        THEN [table[i] EXCEPT !.status = "applied", !.applied_at = now]
        ELSE table[i]]

\* a dismissal that clears the applied_at stamp
mark_role_dismissed_clears_stamp(table, role_id) ==
    [i \in 1..Len(table) |->
        IF table[i].id = role_id
        THEN [table[i] EXCEPT !.status = "dismissed", !.applied_at = NoTime]
        ELSE table[i]]

\* UPDATE roles SET status = 'dismissed' WHERE id = ..
mark_role_dismissed(table, role_id) ==
    [i \in 1..Len(table) |->
        IF table[i].id = role_id
        THEN [table[i] EXCEPT !.status = "dismissed"]
        ELSE table[i]]

\* UPDATE companies SET last_scraped_at = NOW() WHERE id = ..
update_company_scraped(comps, company_id, now) ==
    [c \in DOMAIN comps |->
        IF c = company_id THEN [comps[c] EXCEPT !.last_scraped_at = now] ELSE comps[c]]

\* an add that overwrites the row of a name that is already there
add_company_overwrites(comps, name, careers_url) ==
    IF \E c \in DOMAIN comps : comps[c].name = name
    THEN [c \in DOMAIN comps |->
            IF comps[c].name = name
            THEN [comps[c] EXCEPT !.careers_url = careers_url, !.active = 1]
            ELSE comps[c]]
    ELSE Append(comps, [id |-> Len(comps) + 1, name |-> name,
                        careers_url |-> careers_url, active |-> 1,
                        last_scraped_at |-> NoTime])

\* INSERT INTO companies (name, careers_url, active) VALUES (.., .., 1)
\* ON CONFLICT (name) DO NOTHING.  Ids are given in order of insertion.
add_company(comps, name, careers_url) ==
    IF \E c \in DOMAIN comps : comps[c].name = name
    THEN comps
    ELSE Append(comps, [id |-> Len(comps) + 1, name |-> name,
                        careers_url |-> careers_url, active |-> 1,
                        last_scraped_at |-> NoTime])

\* a removal that deletes the row
remove_company_deletes(comps, company_id) ==
    SelectSeq(comps, LAMBDA row : row.id # company_id)

\* UPDATE companies SET active = 0 WHERE id = ..
remove_company(comps, company_id) ==
    [c \in DOMAIN comps |->
        IF comps[c].id = company_id THEN [comps[c] EXCEPT !.active = 0] ELSE comps[c]]

\* INSERT INTO scrape_logs; started_at takes its default NOW().  The field
\* by_run is not a column: it records which invocation wrote the row.
log_scrape(table, company_id, roles_found, roles_qualified, st, error, now, by_run) ==
    Append(table,
        [id |-> Len(table) + 1, company_id |-> company_id, started_at |-> now,
         finished_at |-> now, roles_found |-> roles_found,
         roles_qualified |-> roles_qualified, status |-> st, error |-> error,
         by_run |-> by_run])

\* SELECT * FROM companies WHERE active = 1, as the ids in table order
RECURSIVE active_ids(_, _)
active_ids(comps, from) ==
    IF from \notin DOMAIN comps THEN <<>>
    ELSE (IF comps[from].active = 1 THEN <<from>> ELSE <<>>) \o active_ids(comps, from + 1)

\* a listing that forgets WHERE active = 1
get_active_companies_unfiltered(comps) == [c \in DOMAIN comps |-> comps[c].id]

get_active_companies(comps) == active_ids(comps, 1)

---------------------------------------------------------------------------
(* Role dicts as the search returns them, and dict.get *)

MISSING == "MISSING"     \* the key is absent from the dict

\* dict.get(key, default) on a field that may be absent
dict_get(v, default) == IF v = MISSING THEN default ELSE v

RolePM ==
    [type |-> "dict", title |-> "PM", url |-> "u1", location |-> "London",
     description |-> "d1", seniority |-> "Senior", department |-> "Product",
     posted_date |-> "2024-05-01"]

\* the same opening seen again with other descriptive fields
RolePMAgain ==
    [type |-> "dict", title |-> "PM", url |-> "u2", location |-> "London",
     description |-> "d2", seniority |-> "Lead", department |-> "Strategy",
     posted_date |-> "Not specified"]

\* "location": null, and keys left out
RoleNoLocation ==
    [type |-> "dict", title |-> "BD", url |-> MISSING, location |-> NULL,
     description |-> "d3", seniority |-> MISSING, department |-> MISSING,
     posted_date |-> MISSING]

\* "title": null
RoleNoTitle ==
    [type |-> "dict", title |-> NULL, url |-> "u4", location |-> "London",
     description |-> "d4", seniority |-> "Mid", department |-> "Ops",
     posted_date |-> ""]

\* an array element that is no object
RoleScalar ==
    [type |-> "scalar", title |-> MISSING, url |-> MISSING, location |-> MISSING,
     description |-> MISSING, seniority |-> MISSING, department |-> MISSING,
     posted_date |-> MISSING]

\* the keyword arguments the orchestrator passes to upsert_role, but posted_date
role_args(company_id, role, score, breakdown, posted_date) ==
    [company_id |-> company_id,
     title |-> dict_get(role.title, "Unknown"),
     url |-> dict_get(role.url, ""),
     location |-> dict_get(role.location, ""),
     description |-> dict_get(role.description, ""),
     seniority |-> dict_get(role.seniority, ""),
     department |-> dict_get(role.department, ""),
     score |-> score, score_breakdown |-> breakdown, posted_date |-> posted_date]

---------------------------------------------------------------------------
(* The store's operations called one at a time, in any order *)

NoCall == [fn |-> "none", done |-> FALSE]
FreshRun ==
    [kind |-> "none", pc |-> "free", filter |-> 0, companies |-> <<>>, ci |-> 0,
     found |-> <<>>, scored |-> <<>>, ri |-> 0, qualified_count |-> 0,
     exc |-> "", clean |-> TRUE, search_failed |-> {}, upserted |-> {},
     failed_at |-> 0]

InitCommon ==
    /\ roles = <<>>
    /\ logs = <<>>
    /\ clock = 1
    /\ status = IdleStatus
    /\ resp = 0
    /\ faults = 0
    /\ outage = FALSE

\* the calls tried: an opening, the same opening with other fields, the same
\* title at another company, a NULL location, a NULL title, an unknown company
UpsertArgs ==
    {role_args(1, RolePM, SCORE_THRESHOLD, "{a}", "2024-05-01"),
     role_args(1, RolePMAgain, SCORE_THRESHOLD - 1, "{b}", NULL),
     role_args(NumCompanies, RolePM, SCORE_THRESHOLD - 1, "{b}", NULL),
     role_args(1, RoleNoLocation, SCORE_THRESHOLD, "{a}", NULL),
     role_args(1, RoleNoTitle, SCORE_THRESHOLD, "{a}", NULL),
     role_args(NumCompanies + 1, RolePM, SCORE_THRESHOLD, "{a}", NULL)}

\* db.upsert_role(...); an exception leaves the table as it was (no commit)
UpsertRole(a) ==
    LET out == upsert_role(roles, companies, a, clock) IN
    /\ IF out.raised THEN roles' = roles
       ELSE Len(out.value) <= MaxRoleRows /\ roles' = out.value
    /\ UNCHANGED <<companies, logs, clock, status, run, resp, faults, outage, call>>

\* PATCH /api/roles/{role_id}
update_role_status(role_id, st) ==
    /\ roles' = IF st = "applied" THEN mark_role_applied(roles, role_id, clock)
                ELSE IF st = "dismissed" THEN mark_role_dismissed(roles, role_id)
                ELSE roles
    /\ resp' = IF st \in {"applied", "dismissed"} THEN 200 ELSE 400
    /\ UNCHANGED <<companies, logs, clock, status, run, faults, outage, call>>

\* time passes
Tick ==
    /\ clock < MaxClock
    /\ clock' = clock + 1
    /\ UNCHANGED <<companies, roles, logs, status, run, resp, faults, outage, call>>

InitStore == InitCommon /\ companies = SeedCompanies /\ run = <<>> /\ call = NoCall

NextStore ==
    \/ \E a \in UpsertArgs : UpsertRole(a)
    \/ \E id \in 1..MaxRoleRows, st \in {"applied", "dismissed", "archived"} :
          update_role_status(id, st)
    \/ Tick

SpecStore == InitStore /\ [][NextStore]_vars

---------------------------------------------------------------------------
(* api.py and scheduler.py: the orchestrator.                               *)
(* A run slot holds the local state of one call of _run_scrape ("manual")  *)
(* or scheduled_scrape ("scheduled").  Its fields clean, search_failed,    *)
(* upserted and failed_at are not program state: they record what happened *)
(* to the call, for the claims.                                            *)

\* what the search for one company does: it raises, or returns these roles
SearchOutcomes ==
    {Raise("HTTPError"), Return(<<>>), Return(<<RolePM>>),
     Return(<<RoleNoTitle, RolePMAgain>>)}

\* the scoring service's object, given by its fields
GoodResult ==
    [type |-> "dict", total_score |-> SCORE_THRESHOLD, breakdown |-> "{a}",
     red_flags |-> "", recommendation |-> "Good", reasoning |-> "fits"]

\* an answer that parsed to a JSON array: score_role returns it as it is
ListResult ==
    [type |-> "list", total_score |-> 0, breakdown |-> "", red_flags |-> "",
     recommendation |-> "", reasoning |-> ""]

\* what score_role does for one role
ScoreOutcomes == {Raise("HTTPError"), Return(GoodResult), Return(ListResult)}

\* raw_posted if raw_posted and raw_posted != "Not specified" else None
normalized_posted_date(role) ==
    LET raw_posted == dict_get(role.posted_date, NULL) IN
    IF raw_posted \in {NULL, "", "Not specified"} THEN NULL ELSE raw_posted

\* an iteration that counts a role as qualified only above the threshold
store_scored_role_above(kind, pair, company_id, table, comps, now) ==
    IF pair.result.type # "dict" \/ pair.role.type # "dict"
    THEN Raise("AttributeError")
    ELSE LET total_score == pair.result.total_score
             posted_date == IF kind = "manual" THEN normalized_posted_date(pair.role)
                            ELSE NULL
             out == upsert_role(table, comps,
                        role_args(company_id, pair.role, total_score,
                                  dict_get(pair.result.breakdown, "{}"), posted_date),
                        now)
         IN  IF out.raised THEN out
             ELSE Return([table |-> out.value,
                          qualified |-> IF total_score > SCORE_THRESHOLD THEN 1 ELSE 0])

\* one iteration of the loop over scored: .get on a result or a role that is no
\* dict raises AttributeError; scheduled_scrape passes no posted_date
store_scored_role(kind, pair, company_id, table, comps, now) ==
    IF pair.result.type # "dict" \/ pair.role.type # "dict"
    THEN Raise("AttributeError")
    ELSE LET total_score == pair.result.total_score
             posted_date == IF kind = "manual" THEN normalized_posted_date(pair.role)
                            ELSE NULL
             out == upsert_role(table, comps,
                        role_args(company_id, pair.role, total_score,
                                  dict_get(pair.result.breakdown, "{}"), posted_date),
                        now)
         IN  IF out.raised THEN out
             ELSE Return([table |-> out.value,
                          qualified |-> IF total_score >= SCORE_THRESHOLD THEN 1 ELSE 0])

Slots == DOMAIN run
Started == {"list", "search", "score", "upsert", "stamp", "log", "log_error", "finish"}
HasFreeSlot == \E r \in Slots : run[r].pc = "free"
FreeSlot == CHOOSE r \in Slots : run[r].pc = "free" /\ \A q \in 1..(r - 1) : run[q].pc # "free"

\* every order of the elements of set S
Orders(S) ==
    {o \in [1..Cardinality(S) -> S] : \A i, j \in 1..Cardinality(S) : o[i] = o[j] => i = j}

Range(f) == {f[i] : i \in DOMAIN f}

\* the store becomes unreachable for its next operation
Outage ==
    /\ ~outage /\ faults < MaxFaults
    /\ outage' = TRUE
    /\ faults' = faults + 1
    /\ UNCHANGED <<companies, roles, logs, clock, status, run, resp, call>>

\* a store operation goes through / raises OperationalError
StoreUp == ~outage /\ outage' = outage
StoreDown == outage /\ outage' = FALSE

\* company_ids = [company_id] if company_id else None
TriggerArgs == 0..(NumCompanies + 1)

\* a trigger that does not look at the flag
trigger_scrape_unchecked(company_id) ==
    /\ HasFreeSlot
    /\ resp' = 200
    /\ run' = [run EXCEPT ![FreeSlot] =
                  [FreshRun EXCEPT !.kind = "manual", !.pc = "queued",
                                   !.filter = company_id]]
    /\ UNCHANGED <<companies, roles, logs, clock, status, faults, outage, call>>

\* POST /api/scrape; a free slot stands for the background task added
trigger_scrape(company_id) ==
    /\ \/ /\ status.is_running
          /\ resp' = 409
          /\ run' = run
       \/ /\ ~status.is_running
          /\ HasFreeSlot
          /\ resp' = 200
          /\ run' = [run EXCEPT ![FreeSlot] =
                        [FreshRun EXCEPT !.kind = "manual", !.pc = "queued",
                                         !.filter = company_id]]
    /\ UNCHANGED <<companies, roles, logs, clock, status, faults, outage, call>>

\* the background task starts: _run_scrape sets the flag
StartRun(r) ==
    /\ run[r].pc = "queued"
    /\ status' = [status EXCEPT !.is_running = TRUE]
    /\ run' = [run EXCEPT ![r].pc = "list"]
    /\ UNCHANGED <<companies, roles, logs, clock, resp, faults, outage, call>>

\* the daily job fires; the scheduler runs one instance of a job at a time
SchedulerFire ==
    /\ \A r \in Slots : run[r].kind = "scheduled" => run[r].pc \notin Started
    /\ HasFreeSlot
    /\ run' = [run EXCEPT ![FreeSlot] =
                  [FreshRun EXCEPT !.kind = "scheduled", !.pc = "list"]]
    /\ UNCHANGED <<companies, roles, logs, clock, status, resp, faults, outage, call>>

\* companies = db.get_active_companies(), filtered by company_ids; the query has
\* no ORDER BY
ListCompanies(r) ==
    /\ run[r].pc = "list"
    /\ \/ /\ \E order \in Orders({c \in Range(get_active_companies(companies)) :
                                     run[r].filter = 0 \/ c = run[r].filter}) :
                run' = [run EXCEPT ![r].companies = order, ![r].ci = 1,
                           ![r].pc = IF order = <<>> THEN "finish" ELSE "search"]
          /\ StoreUp
       \/ /\ StoreDown
          /\ run' = [run EXCEPT ![r].pc = "crashed", ![r].clean = FALSE]
    /\ UNCHANGED <<companies, roles, logs, clock, status, resp, faults, call>>

Company(r) == companies[run[r].companies[run[r].ci]]

\* roles = scrape_company_roles(...)
Search(r, outcomes) ==
    /\ run[r].pc = "search"
    /\ status' = IF run[r].kind = "manual"
                 THEN [status EXCEPT !.current_company = Company(r).name,
                          !.progress = Progress("Scraping", 0, Company(r).name)]
                 ELSE status
    /\ \E o \in outcomes :
          run' = IF o.raised
                 THEN [run EXCEPT ![r].pc = "log_error", ![r].exc = o.exc,
                          ![r].search_failed = @ \cup {run[r].ci}]
                 ELSE [run EXCEPT ![r].pc = "score", ![r].found = o.value]
    /\ UNCHANGED <<companies, roles, logs, clock, resp, faults, outage, call>>

\* scored = score_roles_batch(roles, company["name"])
Score(r, results) ==
    /\ run[r].pc = "score"
    /\ status' = IF run[r].kind = "manual"
                 THEN [status EXCEPT !.progress =
                          Progress("Scoring", Len(run[r].found), Company(r).name)]
                 ELSE status
    /\ \E outcomes \in [1..Len(run[r].found) -> results] :
          run' = [run EXCEPT
                     ![r].scored = score_roles_batch(run[r].found, outcomes).value,
                     ![r].qualified_count = 0, ![r].ri = 1,
                     ![r].pc = IF run[r].found = <<>> THEN "stamp" ELSE "upsert"]
    /\ UNCHANGED <<companies, roles, logs, clock, resp, faults, outage, call>>

\* an exception in the try block: control passes to the except clause
Fails(r, e) ==
    [run EXCEPT ![r].pc = "log_error", ![r].exc = e, ![r].clean = FALSE,
                ![r].failed_at = run[r].ri]

\* one iteration of "for role, score_result in scored"
UpsertNext(r) ==
    /\ run[r].pc = "upsert"
    /\ \/ LET out == store_scored_role(run[r].kind, run[r].scored[run[r].ri],
                         Company(r).id, roles, companies, clock) IN
          /\ IF out.raised
             THEN roles' = roles /\ run' = Fails(r, out.exc)
             ELSE /\ Len(out.value.table) <= MaxRoleRows
                  /\ roles' = out.value.table
                  /\ run' = [run EXCEPT
                                ![r].qualified_count = @ + out.value.qualified,
                                ![r].upserted = @ \cup {run[r].ri},
                                ![r].ri = @ + 1,
                                ![r].pc = IF run[r].ri = Len(run[r].scored)
                                          THEN "stamp" ELSE "upsert"]
          /\ StoreUp
       \/ /\ StoreDown
          /\ roles' = roles
          /\ run' = Fails(r, "OperationalError")
    /\ UNCHANGED <<companies, logs, clock, status, resp, faults, call>>

\* db.update_company_scraped(company["id"])
Stamp(r) ==
    /\ run[r].pc = "stamp"
    /\ \/ /\ companies' = update_company_scraped(companies, Company(r).id, clock)
          /\ run' = [run EXCEPT ![r].pc = "log"]
          /\ StoreUp
       \/ /\ StoreDown
          /\ companies' = companies
          /\ run' = [Fails(r, "OperationalError") EXCEPT ![r].failed_at = 0]
    /\ UNCHANGED <<roles, logs, clock, status, resp, faults, call>>

\* a loop that tries a company again after a failure
NextCompany_retries(r) ==
    [run EXCEPT ![r].ci = IF run[r].pc = "log_error" THEN @ ELSE @ + 1,
                ![r].found = <<>>, ![r].scored = <<>>,
                ![r].ri = 0, ![r].qualified_count = 0, ![r].exc = "",
                ![r].upserted = {}, ![r].failed_at = 0,
                ![r].pc = IF run[r].pc = "log_error" THEN "search"
                          ELSE IF run[r].ci = Len(run[r].companies)
                               THEN "finish" ELSE "search"]

\* the loop goes on to the next company, or ends
NextCompany(r) ==
    [run EXCEPT ![r].ci = @ + 1, ![r].found = <<>>, ![r].scored = <<>>,
                ![r].ri = 0, ![r].qualified_count = 0, ![r].exc = "",
                ![r].upserted = {}, ![r].failed_at = 0,
                ![r].pc = IF run[r].ci = Len(run[r].companies)
                          THEN "finish" ELSE "search"]

\* db.log_scrape(company["id"], len(roles), qualified_count, "completed"), still
\* inside the try block
LogCompleted(r) ==
    /\ run[r].pc = "log"
    /\ \/ /\ logs' = log_scrape(logs, Company(r).id, Len(run[r].found),
                         run[r].qualified_count, "completed", NULL, clock, r)
          /\ run' = NextCompany(r)
          /\ StoreUp
       \/ /\ StoreDown
          /\ logs' = logs
          /\ run' = [Fails(r, "OperationalError") EXCEPT ![r].failed_at = 0]
    /\ UNCHANGED <<companies, roles, clock, status, resp, faults, call>>

\* an except clause that swallows the failure without a log row
LogError_without_row(r) ==
    /\ run[r].pc = "log_error"
    /\ run' = NextCompany(r)
    /\ UNCHANGED <<companies, roles, logs, clock, status, resp, faults, outage, call>>

\* except Exception as e: db.log_scrape(company["id"], 0, 0, "error", str(e));
\* an exception here leaves the function
LogError(r) ==
    /\ run[r].pc = "log_error"
    /\ \/ /\ logs' = log_scrape(logs, Company(r).id, 0, 0, "error", run[r].exc,
                         clock, r)
          /\ run' = NextCompany(r)
          /\ StoreUp
       \/ /\ StoreDown
          /\ logs' = logs
          /\ run' = [run EXCEPT ![r].pc = "crashed", ![r].clean = FALSE]
    /\ UNCHANGED <<companies, roles, clock, status, resp, faults, call>>

\* after the loop: _run_scrape rebinds _scrape_status; scheduled_scrape returns
Finish(r) ==
    /\ run[r].pc = "finish"
    /\ status' = IF run[r].kind = "manual"
                 THEN [is_running |-> FALSE, current_company |-> NULL,
                       progress |-> Progress("Done", 0, NULL)]
                 ELSE status
    /\ run' = [run EXCEPT ![r].pc = "done"]
    /\ UNCHANGED <<companies, roles, logs, clock, resp, faults, outage, call>>

(* The service with both triggers: manual triggers and the daily job start
   invocations that run side by side.  One company is active, the external
   services answer with a failure or one role, the store stays reachable. *)

OneActiveCompany ==
    [c \in DOMAIN SeedCompanies |->
        [SeedCompanies[c] EXCEPT !.active = IF c = 1 THEN 1 ELSE 0]]

Init ==
    /\ InitCommon
    /\ companies = OneActiveCompany
    /\ run = [r \in 1..MaxRuns |-> FreshRun]
    /\ call = NoCall

Next ==
    \/ \E company_id \in TriggerArgs : trigger_scrape(company_id)
    \/ SchedulerFire
    \/ \E r \in Slots : StartRun(r)
    \/ \E r \in Slots : ListCompanies(r)
    \/ \E r \in Slots : Search(r, {Raise("HTTPError"), Return(<<RolePM>>)})
    \/ \E r \in Slots : Score(r, {Return(GoodResult)})
    \/ \E r \in Slots : UpsertNext(r)
    \/ \E r \in Slots : Stamp(r)
    \/ \E r \in Slots : LogCompleted(r)
    \/ \E r \in Slots : LogError(r)
    \/ \E r \in Slots : Finish(r)

Spec == Init /\ [][Next]_vars

(* One manual invocation from trigger to end, with every answer of the external
   services, store failures and time passing. *)

InitRun ==
    /\ InitCommon
    /\ companies = SeedCompanies
    /\ run = <<FreshRun>>
    /\ call = NoCall

NextRun ==
    \/ \E company_id \in TriggerArgs : trigger_scrape(company_id)
    \/ \E r \in Slots : StartRun(r)
    \/ \E r \in Slots : ListCompanies(r)
    \/ \E r \in Slots : Search(r, SearchOutcomes)
    \/ \E r \in Slots : Score(r, ScoreOutcomes)
    \/ \E r \in Slots : UpsertNext(r)
    \/ \E r \in Slots : Stamp(r)
    \/ \E r \in Slots : LogCompleted(r)
    \/ \E r \in Slots : LogError(r)
    \/ \E r \in Slots : Finish(r)
    \/ Outage
    \/ Tick

SpecRun == InitRun /\ [][NextRun]_vars

---------------------------------------------------------------------------
(* One manual invocation whose scoring answers carry any integer total_score *)

\* answers of the scoring service whose total_score is outside 0..100
OverResult == [GoodResult EXCEPT !.total_score = 150]
UnderResult == [GoodResult EXCEPT !.total_score = -5]

\* what score_role does for one role: it raises, or returns one of these objects
AnyScoreOutcomes ==
    {Raise("HTTPError"), Return(GoodResult), Return(OverResult), Return(UnderResult)}

InitScores == InitRun

NextScores ==
    \/ \E company_id \in TriggerArgs : trigger_scrape(company_id)
    \/ \E r \in Slots : StartRun(r)
    \/ \E r \in Slots : ListCompanies(r)
    \/ \E r \in Slots : Search(r, {Raise("HTTPError"), Return(<<RolePM>>),
                                   Return(<<RolePM, RoleNoLocation>>)})
    \/ \E r \in Slots : Score(r, AnyScoreOutcomes)
    \/ \E r \in Slots : UpsertNext(r)
    \/ \E r \in Slots : Stamp(r)
    \/ \E r \in Slots : LogCompleted(r)
    \/ \E r \in Slots : LogError(r)
    \/ \E r \in Slots : Finish(r)

SpecScores == InitScores /\ [][NextScores]_vars

---------------------------------------------------------------------------
(* The service as its client sees it: the company and role endpoints and direct
   upserts, called between manual scrape runs of the first company. *)

\* a name that is seeded and a name that is new
AddNames == {CompanyNames[1], CompanyNames[NumCompanies + 1]}

\* POST /api/companies
AddCompany(name, careers_url) ==
    /\ Len(add_company(companies, name, careers_url)) <= NumCompanies + 1
    /\ companies' = add_company(companies, name, careers_url)
    /\ resp' = 200
    /\ call' = [fn |-> "add_company", done |-> TRUE, name |-> name,
                existed |-> \E c \in DOMAIN companies : companies[c].name = name]
    /\ UNCHANGED <<roles, logs, clock, status, run, faults, outage>>

\* DELETE /api/companies/{company_id}
deactivate_company(company_id) ==
    /\ companies' = remove_company(companies, company_id)
    /\ resp' = 200
    /\ UNCHANGED <<roles, logs, clock, status, run, faults, outage, call>>

\* a direct upsert of an opening the search does not return
AdminUpserts == {role_args(NumCompanies, RoleNoLocation, SCORE_THRESHOLD - 1, "{b}", NULL)}

InitAdmin == InitRun

\* no invocation is queued or in progress
Quiet == \A r \in Slots : run[r].pc \in {"free", "done", "crashed"}

NextAdmin ==
    \/ Quiet /\ \E name \in AddNames : AddCompany(name, "url2")
    \/ Quiet /\ \E company_id \in 1..NumCompanies : deactivate_company(company_id)
    \/ Quiet /\ \E a \in AdminUpserts : UpsertRole(a)
    \/ Quiet /\ \E id \in 1..MaxRoleRows, st \in {"applied", "dismissed", "archived"} :
                   update_role_status(id, st)
    \/ trigger_scrape(1)
    \/ \E r \in Slots : StartRun(r)
    \/ \E r \in Slots : ListCompanies(r)
    \/ \E r \in Slots : Search(r, {Raise("HTTPError"), Return(<<RolePM>>)})
    \/ \E r \in Slots : Score(r, {Return(GoodResult)})
    \/ \E r \in Slots : UpsertNext(r)
    \/ \E r \in Slots : Stamp(r)
    \/ \E r \in Slots : LogCompleted(r)
    \/ \E r \in Slots : LogError(r)
    \/ \E r \in Slots : Finish(r)

SpecAdmin == InitAdmin /\ [][NextAdmin]_vars

---------------------------------------------------------------------------
(* Claims about the store *)

\* the (company_id, title, location) of a row or of a call's arguments
triple(x) == <<x.company_id, x.title, x.location>>

\* a call of upsert_role that returns
Upserts(a) == UpsertRole(a) /\ ~upsert_role(roles, companies, a, clock).raised

\* C1: after an upsert_role call the table holds exactly one row per
\* (company_id, title, location); upserting a triple that is already there adds no
\* row, and the row of the triple carries the url, description, seniority,
\* department, posted_date, score and score_breakdown of this most recent call.
C1_OneRowPerTriple ==
    [][\A a \in UpsertArgs : Upserts(a) =>
          /\ \A i, j \in 1..Len(roles') :
                triple(roles'[i]) = triple(roles'[j]) => i = j
          /\ (\E i \in 1..Len(roles) : triple(roles[i]) = triple(a))
                => Len(roles') = Len(roles)
          /\ \E i \in 1..Len(roles') :
                /\ triple(roles'[i]) = triple(a)
                /\ roles'[i].url = a.url
                /\ roles'[i].description = a.description
                /\ roles'[i].seniority = a.seniority
                /\ roles'[i].department = a.department
                /\ roles'[i].posted_date = a.posted_date
                /\ roles'[i].score = a.score
                /\ roles'[i].score_breakdown = a.score_breakdown]_vars

\* C2: an upsert_role call leaves the id, status, applied_at and first_seen_at of
\* every row that exists unchanged (so a role marked applied or dismissed stays
\* so through later upserts), and first_seen_at is written only for the row the
\* call creates.
C2_UpsertPreservesUserFields ==
    [][\A a \in UpsertArgs : UpsertRole(a) =>
          /\ Len(roles') >= Len(roles)
          /\ \A i \in 1..Len(roles) :
                /\ roles'[i].id = roles[i].id
                /\ roles'[i].status = roles[i].status
                /\ roles'[i].applied_at = roles[i].applied_at
                /\ roles'[i].first_seen_at = roles[i].first_seen_at
          /\ \A i \in (Len(roles) + 1)..Len(roles') :
                /\ roles'[i].first_seen_at = clock
                /\ roles'[i].id \notin {roles[j].id : j \in 1..Len(roles)}]_vars

\* C2 witness: a role marked applied was upserted again at a later instant, and
\* a dismissed role likewise
C2_Witness ==
    \E i \in 1..Len(roles) :
        /\ roles[i].status = "applied"
        /\ roles[i].applied_at # NoTime
        /\ roles[i].last_seen_at > roles[i].applied_at
        /\ roles[i].first_seen_at < roles[i].last_seen_at
        /\ roles[i].url = "u2"

---------------------------------------------------------------------------
(* score_role on every short response text *)

TextAlphabet == {"F", "N", "S", "x", "[", "]", "{", "}", ",", "k", "1"}

\* every text of at most n tokens
Texts(n) == UNION {[1..m -> TextAlphabet] : m \in 0..n}

InitScoreRole ==
    /\ InitCommon
    /\ companies = SeedCompanies
    /\ run = <<>>
    /\ \E response \in {TransportError} \cup {Answer(t) : t \in Texts(MaxTextLen)} :
          call = [fn |-> "score_role", done |-> FALSE, arg |-> response,
                  ret |-> Return(NoValue)]

ScoreRole ==
    /\ call.fn = "score_role" /\ ~call.done
    /\ call' = [call EXCEPT !.done = TRUE, !.ret = score_role(call.arg)]
    /\ UNCHANGED <<companies, roles, logs, clock, status, run, resp, faults, outage>>

SpecScoreRole == InitScoreRole /\ [][ScoreRole]_vars

\* json.loads fails on the fence-stripped text and, when the text has a "{"
\* before a "}", on the part from the first "{" to the last "}" as well
unparsable(text) ==
    LET content == strip_fence(strip(text))
        start == find(content, "{")
        end == rfind(content, "}")
    IN  /\ ~json_valid(content)
        /\ (start # 0 /\ end >= start) => ~json_valid(SubSeq(content, start, end))

\* C9: for an answer whose text cannot be parsed (strictly, or by its part
\* between the braces), score_role returns, and does not raise, a result with
\* total_score 0 and recommendation "Error".
C9_UnparsableGivesErrorResult ==
    (call.fn = "score_role" /\ call.done /\ call.arg.ok /\ unparsable(call.arg.text))
    => /\ ~call.ret.raised
       /\ call.ret.value.type = "dict"
       /\ call.ret.value.total_score = 0
       /\ call.ret.value.recommendation = "Error"

---------------------------------------------------------------------------
(* score_roles_batch on every short batch *)

\* answers of the scoring service: an object, a fenced object, prose, braces
\* around prose, an array, and no answer at all
SampleResponses ==
    {TransportError,
     Answer(<<"{", "k", "1", "}">>),
     Answer(<<"F", "x", "N", "{", "k", "1", ",", "k", "1", "}", "N", "F">>),
     Answer(<<"x">>),
     Answer(<<"{", "x", "}">>),
     Answer(<<"[", "1", "]">>)}

BatchRoles == {RolePM, RoleNoLocation, RoleScalar}

InitScoreBatch ==
    /\ InitCommon
    /\ companies = SeedCompanies
    /\ run = <<>>
    /\ \E n \in 0..MaxBatch :
          \E batch \in [1..n -> BatchRoles], responses \in [1..n -> SampleResponses] :
             call = [fn |-> "score_roles_batch", done |-> FALSE,
                     arg |-> [roles |-> batch, responses |-> responses],
                     ret |-> Return(<<>>)]

ScoreRolesBatch ==
    /\ call.fn = "score_roles_batch" /\ ~call.done
    /\ call' = [call EXCEPT !.done = TRUE,
                   !.ret = score_roles_batch(call.arg.roles,
                              [i \in DOMAIN call.arg.responses |->
                                  score_role(call.arg.responses[i])])]
    /\ UNCHANGED <<companies, roles, logs, clock, status, run, resp, faults, outage>>

SpecScoreBatch == InitScoreBatch /\ [][ScoreRolesBatch]_vars

\* C8: score_roles_batch returns (does not raise) one pair per input role, the
\* i-th pair holding the i-th role; where the role's score_role call raised the
\* result has total_score 0 and recommendation "Error", elsewhere it is what
\* score_role returned for that role.
C8_BatchIsOneToOne ==
    (call.fn = "score_roles_batch" /\ call.done) =>
        LET batch == call.arg.roles
            scored == call.ret.value
        IN  /\ ~call.ret.raised
            /\ Len(scored) = Len(batch)
            /\ \A i \in 1..Len(batch) :
                  LET r == score_call(batch[i], score_role(call.arg.responses[i])) IN
                  /\ scored[i].role = batch[i]
                  /\ r.raised => /\ scored[i].result.total_score = 0
                                 /\ scored[i].result.recommendation = "Error"
                  /\ ~r.raised => scored[i].result = r.value

\* C8 witness: a batch whose first role's call raised and whose second returned
\* a parsed object
C8_Witness ==
    /\ call.fn = "score_roles_batch" /\ call.done
    /\ Len(call.arg.roles) = 2
    /\ score_call(call.arg.roles[1], score_role(call.arg.responses[1])).raised
    /\ ~score_call(call.arg.roles[2], score_role(call.arg.responses[2])).raised
    /\ call.ret.value[1].result.recommendation = "Error"
    /\ call.ret.value[2].result.type = "dict"
    /\ call.ret.value[2].result # ParseErrorResult

---------------------------------------------------------------------------
(* scrape_company_roles on code-fenced arrays *)

\* valid JSON arrays: empty, one object on one line, two objects over several
\* lines, an object holding an array
SampleArrays ==
    {<<"[", "]">>,
     <<"[", "{", "k", "1", "}", "]">>,
     <<"[", "N", "S", "{", "k", "1", "}", ",", "N", "S", "{", "k", "1", ",", "k", "1", "}", "N", "]">>,
     <<"[", "{", "k", "[", "1", "]", "}", "]">>}

FenceTags == {<<>>, <<"x">>}                  \* ``` or ```json
Separators == {<<"N">>, <<"S">>, <<>>}        \* line break, blank, nothing
Tails ==                                       \* text after the closing fence
    {<<>>, <<"N">>, <<"S", "x">>, <<"N", "x">>, <<"N", "x", "[", "1", "]">>,
     <<"N", "x", "[", "1", "]", "N", "x">>}

Layouts ==
    [array : SampleArrays, tag : FenceTags, open : Separators, close : Separators,
     tail : Tails]

\* the array in its code fence
wrapped(l) == <<"F">> \o l.tag \o l.open \o l.array \o l.close \o <<"F">> \o l.tail

InitParse ==
    /\ InitCommon
    /\ companies = SeedCompanies
    /\ run = <<>>
    /\ \E l \in Layouts :
          call = [fn |-> "scrape_company_roles", done |-> FALSE, layout |-> l,
                  arg |-> Answer(wrapped(l)), ret |-> Return(EmptyList)]

ScrapeCompanyRoles ==
    /\ call.fn = "scrape_company_roles" /\ ~call.done
    /\ call' = [call EXCEPT !.done = TRUE, !.ret = scrape_company_roles(call.arg)]
    /\ UNCHANGED <<companies, roles, logs, clock, status, run, resp, faults, outage>>

SpecParse == InitParse /\ [][ScrapeCompanyRoles]_vars

\* the wrapped answer gave the roles the bare array gives
same_as_unwrapped ==
    /\ ~call.ret.raised
    /\ call.ret = scrape_company_roles(Answer(call.layout.array))
    /\ call.ret.value = no_whitespace(call.layout.array)

fences_on_own_lines(l) ==
    /\ l.open = <<"N">>
    /\ l.close = <<"N">>
    /\ \A i \in 1..Len(l.tail) : l.tail[i] # "]"

---------------------------------------------------------------------------
(* Claims about the orchestrator *)

\* the invocations in progress: started and not yet returned
InProgress == {r \in Slots : run[r].pc \in Started}

\* the scrape_logs rows invocation r wrote, in order
RowsOf(table, r) == SelectSeq(table, LAMBDA row : row.by_run = r)

\* C3: at most one orchestrator invocation (scheduled_scrape or _run_scrape) is
\* in progress at any time.
C3_NoOverlappingRuns == Cardinality(InProgress) <= 1

\* C4: a manual trigger that arrives while is_running is true is answered 409
\* and changes nothing: no invocation is queued, the run-state record and every
\* invocation's state (its company list included) and the store are as before.
C4_RejectedTriggerChangesNothing ==
    [][\A company_id \in TriggerArgs :
          (status.is_running /\ trigger_scrape(company_id)) =>
              /\ resp' = 409
              /\ run' = run
              /\ status' = status
              /\ UNCHANGED <<companies, roles, logs>>]_vars

\* C4 witness: a trigger was rejected while an invocation is in progress
C4_Witness ==
    /\ resp = 409
    /\ status.is_running
    /\ InProgress # {}
    /\ \A r \in Slots : run[r].pc # "queued"

\* C5: when a manual invocation in which nothing but searches failed ends, it has
\* written exactly one scrape_logs row per selected company, in order: an error
\* row with roles_found 0, roles_qualified 0 and an error message where the
\* search failed, a completed row elsewhere; and the flag is idle.
C5_OneLogRowPerCompany ==
    [][\A r \in Slots :
          (Finish(r) /\ run[r].kind = "manual" /\ run[r].clean) =>
              LET mine == RowsOf(logs', r) IN
              /\ Len(mine) = Len(run[r].companies)
              /\ \A i \in 1..Len(mine) :
                    /\ mine[i].company_id = run[r].companies[i]
                    /\ IF i \in run[r].search_failed
                       THEN /\ mine[i].status = "error"
                            /\ mine[i].roles_found = 0
                            /\ mine[i].roles_qualified = 0
                            /\ mine[i].error # NULL
                       ELSE mine[i].status = "completed"
              /\ ~status'.is_running]_vars

\* C5 witness: an ended invocation over two companies whose first search failed
\* and whose second was completed, the flag idle
C5_Witness ==
    \E r \in Slots :
        /\ run[r].pc = "done" /\ run[r].clean
        /\ run[r].search_failed = {1}
        /\ Len(RowsOf(logs, r)) = 2
        /\ RowsOf(logs, r)[1].status = "error"
        /\ RowsOf(logs, r)[2].status = "completed"
        /\ RowsOf(logs, r)[2].roles_found > 0
        /\ ~status.is_running

\* C6: a _run_scrape invocation that has set is_running, when it ends (returns or
\* is left by an exception), has set is_running back to false.
C6_RunReturnsToIdle ==
    [][\A r \in Slots :
          (run[r].kind = "manual" /\ run[r].pc \in Started /\ run'[r].pc \notin Started)
              => ~status'.is_running]_vars

\* C7: when the pipeline of a company is left for its log row, every discovered
\* role other than one whose own processing failed has been upserted; and an
\* ended invocation has a log row for every selected company.
C7_RoleFailureIsolated ==
    \A r \in Slots :
        /\ (run[r].pc = "log_error" /\ run[r].failed_at # 0) =>
              \A j \in 1..Len(run[r].scored) :
                  j # run[r].failed_at => j \in run[r].upserted
        /\ run[r].pc = "done" => Len(RowsOf(logs, r)) = Len(run[r].companies)

---------------------------------------------------------------------------
(* db.py and api.py: the role listings and the dashboard counts.  A query gives
   its rows in any order that agrees with its ORDER BY, so a listing is the set
   of the sequences the database may return. *)

\* the literal in get_dashboard_stats' "score >= 80"
StatsThreshold == 80

\* FROM roles r JOIN companies c ON r.company_id = c.id
joined(table, comps) ==
    {i \in 1..Len(table) : \E c \in DOMAIN comps : comps[c].id = table[i].company_id}

\* the row of the join: r.* and c.name AS company_name
joined_row(row, comps) ==
    [id |-> row.id, company_id |-> row.company_id, title |-> row.title,
     location |-> row.location, score |-> row.score, status |-> row.status,
     first_seen_at |-> row.first_seen_at, last_seen_at |-> row.last_seen_at,
     company_name |-> comps[CHOOSE c \in DOMAIN comps : comps[c].id = row.company_id].name]

\* row a may come before row b under ORDER BY r.score DESC, r.last_seen_at DESC
\* ("score, last_seen_at") or under ORDER BY r.score DESC ("score")
in_order(order_by, a, b) ==
    IF order_by = "score, last_seen_at"
    THEN a.score > b.score \/ (a.score = b.score /\ a.last_seen_at >= b.last_seen_at)
    ELSE a.score >= b.score

\* the results of a query that selects the rows at the indices in selected and
\* has the ORDER BY clause order_by
query(table, comps, selected, order_by) ==
    {[k \in 1..Cardinality(selected) |-> joined_row(table[o[k]], comps)] :
        o \in {p \in Orders(selected) :
                 \A k \in 1..(Cardinality(selected) - 1) :
                    in_order(order_by, table[p[k]], table[p[k + 1]])}}

\* a qualified listing that leaves out the roles at the threshold
get_qualified_roles_above(table, comps, threshold) ==
    query(table, comps,
          {i \in joined(table, comps) : table[i].score > threshold},
          "score, last_seen_at")

get_qualified_roles(table, comps, threshold) ==
    query(table, comps,
          {i \in joined(table, comps) : table[i].score >= threshold},
          "score, last_seen_at")

get_all_roles(table, comps) ==
    query(table, comps, joined(table, comps), "score, last_seen_at")

get_roles_by_company(table, comps, company_id) ==
    query(table, comps,
          {i \in joined(table, comps) : table[i].company_id = company_id},
          "score")

\* _normalize_role: company_name becomes company, first_seen_at becomes created_at
normalize_role(row) ==
    [id |-> row.id, company_id |-> row.company_id, title |-> row.title,
     location |-> row.location, score |-> row.score, status |-> row.status,
     created_at |-> row.first_seen_at, last_seen_at |-> row.last_seen_at,
     company |-> row.company_name]

\* GET /api/roles; threshold is config.SCORE_THRESHOLD, company_id 0 is no filter
list_roles(table, comps, threshold, qualified_only, company_id) ==
    LET found == IF company_id # 0 THEN get_roles_by_company(table, comps, company_id)
                 ELSE IF qualified_only THEN get_qualified_roles(table, comps, threshold)
                 ELSE get_all_roles(table, comps)
    IN  {[k \in 1..Len(rows) |-> normalize_role(rows[k])] : rows \in found}

get_dashboard_stats(table, comps) ==
    [total_companies |-> Cardinality({c \in DOMAIN comps : comps[c].active = 1}),
     total_roles |-> Len(table),
     qualified_roles |-> Cardinality({i \in 1..Len(table) : table[i].score >= StatsThreshold}),
     applied_roles |-> Cardinality({i \in 1..Len(table) : table[i].status = "applied"}),
     new_roles |-> Cardinality({i \in 1..Len(table) :
                      table[i].status = "new" /\ table[i].score >= StatsThreshold})]

\* values config.SCORE_THRESHOLD is set to
Thresholds == {SCORE_THRESHOLD, SCORE_THRESHOLD + 1}

\* locations that make the openings of a table distinct
ListedLocations == <<"London", "Paris", "Berlin", "Remote">>

\* the row upserts and status updates leave for the i-th opening
ListedRows(i) ==
    {[inserted_role(i, role_args(company_id,
                                 [RolePM EXCEPT !.location = ListedLocations[i]],
                                 score, "{a}", NULL), 1)
        EXCEPT !.last_seen_at = seen, !.status = st,
               !.applied_at = IF st = "applied" THEN 1 ELSE NoTime] :
        company_id \in {1, NumCompanies},
        score \in {SCORE_THRESHOLD - 1, SCORE_THRESHOLD, SCORE_THRESHOLD + 1},
        seen \in {1, MaxClock},
        st \in {"new", "applied"}}

\* the tables of n openings
RECURSIVE ListedTables(_)
ListedTables(n) ==
    IF n = 0 THEN {<<>>}
    ELSE {Append(t, row) : t \in ListedTables(n - 1), row \in ListedRows(n)}

InitList ==
    /\ companies = SeedCompanies
    /\ logs = <<>>
    /\ clock = MaxClock
    /\ status = IdleStatus
    /\ resp = 0
    /\ faults = 0
    /\ outage = FALSE
    /\ run = <<>>
    /\ call = NoCall
    /\ \E n \in 0..MaxRoleRows : roles \in ListedTables(n)

\* a GET /api/roles request and its response
ListRoles(threshold, qualified_only, company_id) ==
    /\ ~call.done
    /\ \E ret \in list_roles(roles, companies, threshold, qualified_only, company_id) :
          call' = [fn |-> "list_roles", done |-> TRUE, threshold |-> threshold,
                   qualified_only |-> qualified_only, company_id |-> company_id,
                   ret |-> ret]
    /\ UNCHANGED <<companies, roles, logs, clock, status, run, resp, faults, outage>>

\* a GET /api/stats request and the default GET /api/roles request next to it
GetStats(threshold) ==
    /\ ~call.done
    /\ \E ret \in list_roles(roles, companies, threshold, TRUE, 0) :
          call' = [fn |-> "get_stats", done |-> TRUE, threshold |-> threshold,
                   stats |-> get_dashboard_stats(roles, companies), listing |-> ret]
    /\ UNCHANGED <<companies, roles, logs, clock, status, run, resp, faults, outage>>

NextList ==
    \/ \E threshold \in Thresholds, qualified_only \in BOOLEAN,
          company_id \in 0..NumCompanies :
             ListRoles(threshold, qualified_only, company_id)
    \/ \E threshold \in Thresholds : GetStats(threshold)

SpecList == InitList /\ [][NextList]_vars

---------------------------------------------------------------------------
(* Claims about the company and role endpoints *)

\* C11: adding a company whose name is already there (active or deactivated)
\* raises no error, leaves the number of company rows as it was and leaves the
\* id, careers_url, active flag and last_scraped_at of every row as they were.
C11_AddCompanyIdempotent ==
    [][\A name \in AddNames :
          (AddCompany(name, "url2") /\ \E c \in DOMAIN companies : companies[c].name = name)
          => /\ resp' = 200
             /\ Len(companies') = Len(companies)
             /\ \A c \in DOMAIN companies :
                   /\ companies'[c].id = companies[c].id
                   /\ companies'[c].name = companies[c].name
                   /\ companies'[c].careers_url = companies[c].careers_url
                   /\ companies'[c].active = companies[c].active
                   /\ companies'[c].last_scraped_at = companies[c].last_scraped_at]_vars

\* C11 witness: the last add named a company that is deactivated and was scraped
\* before, and its row is as it was
C11_Witness ==
    /\ call.fn = "add_company" /\ call.existed
    /\ resp = 200
    /\ \E c \in DOMAIN companies :
          /\ companies[c].name = call.name
          /\ companies[c].active = 0
          /\ companies[c].last_scraped_at # NoTime
          /\ companies[c].careers_url = "url"

\* C16: no step removes a company row or a role row (the ids that exist stay, in
\* their place), and deactivating a company clears its active flag and nothing
\* else: the other companies, the roles and the scrape logs are as before.
C16_NothingIsDeleted ==
    [][/\ Len(companies') >= Len(companies)
       /\ \A c \in DOMAIN companies : companies'[c].id = companies[c].id
       /\ Len(roles') >= Len(roles)
       /\ \A i \in 1..Len(roles) : roles'[i].id = roles[i].id
       /\ \A company_id \in 1..NumCompanies :
             deactivate_company(company_id) =>
                /\ roles' = roles
                /\ logs' = logs
                /\ Len(companies') = Len(companies)
                /\ \A c \in DOMAIN companies :
                      companies'[c] = IF companies[c].id = company_id
                                      THEN [companies[c] EXCEPT !.active = 0]
                                      ELSE companies[c]]_vars

\* C16 witness: a deactivated company that has a role and a scrape log row, next
\* to a company that was added
C16_Witness ==
    /\ Len(companies) > NumCompanies
    /\ \E c \in DOMAIN companies :
          /\ companies[c].active = 0
          /\ \E i \in 1..Len(roles) : roles[i].company_id = companies[c].id
          /\ \E i \in 1..Len(logs) : logs[i].company_id = companies[c].id

\* C17: a status update to applied sets status and stamps applied_at, one to
\* dismissed sets status and leaves applied_at, and neither changes another field
\* or another role; any other value is answered with an error (400) and leaves
\* every role as it was.
C17_StatusUpdate ==
    [][\A role_id \in 1..MaxRoleRows, st \in {"applied", "dismissed", "archived"} :
          update_role_status(role_id, st) =>
             /\ Len(roles') = Len(roles)
             /\ st = "archived" => (resp' = 400 /\ roles' = roles)
             /\ st # "archived" => resp' = 200
             /\ \A i \in 1..Len(roles) :
                   roles'[i] =
                      IF roles[i].id # role_id THEN roles[i]
                      ELSE IF st = "applied"
                           THEN [roles[i] EXCEPT !.status = "applied", !.applied_at = clock]
                      ELSE IF st = "dismissed"
                           THEN [roles[i] EXCEPT !.status = "dismissed"]
                      ELSE roles[i]]_vars

\* C17 witness: a role applied at an earlier instant was dismissed and keeps its
\* stamp, and the last request, with another value, was rejected
C17_Witness ==
    /\ resp = 400
    /\ \E i \in 1..Len(roles) :
          /\ roles[i].status = "dismissed"
          /\ roles[i].applied_at # NoTime
          /\ roles[i].applied_at < clock

---------------------------------------------------------------------------
(* Claims about the listings and the dashboard *)

\* the response of the last request is in descending score and, among equal
\* scores, descending last_seen_at
score_then_recency_order(ret) ==
    \A k \in 1..(Len(ret) - 1) :
        \/ ret[k].score > ret[k + 1].score
        \/ ret[k].score = ret[k + 1].score /\ ret[k].last_seen_at >= ret[k + 1].last_seen_at

\* C12: a listing with qualified_only and no company filter returns exactly the
\* roles whose score is >= the threshold, each once, in descending score and,
\* among equal scores, descending last_seen_at.
C12_QualifiedListing ==
    (call.fn = "list_roles" /\ call.done /\ call.qualified_only /\ call.company_id = 0)
    => /\ {call.ret[k].id : k \in 1..Len(call.ret)} =
             {roles[i].id : i \in {j \in 1..Len(roles) : roles[j].score >= call.threshold}}
       /\ Len(call.ret) =
             Cardinality({j \in 1..Len(roles) : roles[j].score >= call.threshold})
       /\ score_then_recency_order(call.ret)

\* C12 witness: of a role one below the threshold and a role at the threshold,
\* the listing returned the second alone
C12_Witness ==
    /\ call.fn = "list_roles" /\ call.done /\ call.qualified_only /\ call.company_id = 0
    /\ call.threshold = SCORE_THRESHOLD
    /\ \E i \in 1..Len(roles) : roles[i].score = SCORE_THRESHOLD - 1
    /\ Len(call.ret) = 1
    /\ call.ret[1].score = SCORE_THRESHOLD

\* C14: whatever value the threshold is configured to, the dashboard's
\* qualified_roles is the number of roles of the default qualified-only listing,
\* new_roles the number of those with status new, and
\* new_roles <= qualified_roles <= total_roles.
C14_DashboardMatchesListing ==
    (call.fn = "get_stats" /\ call.done)
    => /\ call.stats.qualified_roles = Len(call.listing)
       /\ call.stats.new_roles =
             Cardinality({k \in 1..Len(call.listing) : call.listing[k].status = "new"})
       /\ call.stats.new_roles <= call.stats.qualified_roles
       /\ call.stats.qualified_roles <= call.stats.total_roles

\* C18: a listing by company returns that company's roles in descending score
\* and, among equal scores, descending last_seen_at.
C18_CompanyListingOrder ==
    (call.fn = "list_roles" /\ call.done /\ call.company_id # 0)
    => /\ {call.ret[k].id : k \in 1..Len(call.ret)} =
             {roles[i].id : i \in {j \in 1..Len(roles) : roles[j].company_id = call.company_id}}
       /\ score_then_recency_order(call.ret)

\* C19: a listing with qualified_only and a company filter returns only roles
\* whose score is >= the threshold.
C19_QualifiedOnlyWithCompany ==
    (call.fn = "list_roles" /\ call.done /\ call.qualified_only /\ call.company_id # 0)
    => \A k \in 1..Len(call.ret) : call.ret[k].score >= call.threshold

---------------------------------------------------------------------------
(* Claims about the two orchestrators *)

\* C13: scheduled_scrape is the unscoped manual run: each of its steps leaves the
\* store and the run-state record as the same step of _run_scrape would, from
\* the same state and with the same answers; so the role it stores carries the
\* posted_date the manual run stores, and its end sets the run-state record to
\* idle with progress "Done".
C13_ScheduledRunIsManualRun ==
    [][\A r \in Slots :
          run[r].kind = "scheduled" =>
             /\ UpsertNext(r) =>
                   LET out == store_scored_role("manual", run[r].scored[run[r].ri],
                                  Company(r).id, roles, companies, clock)
                   IN  roles' = IF out.raised THEN roles ELSE out.value.table
             /\ Finish(r) =>
                   status' = [is_running |-> FALSE, current_company |-> NULL,
                              progress |-> Progress("Done", 0, NULL)]]_vars

\* C15: every role in the store has an integer score in 0..100, whatever
\* total_score the scoring service's answers carried.
C15_ScoreInRange ==
    \A i \in 1..Len(roles) : roles[i].score \in 0..100

\* C20: in a run from a store where no company was scraped before, a company
\* whose attempt wrote an error row keeps its last_scraped_at (none), a company
\* with a completed row was stamped no later than that row was written, and when
\* the run has ended the stamped companies are those with a completed row.
C20_StampedIffCompleted ==
    /\ \A i \in 1..Len(logs) :
          IF logs[i].status = "error"
          THEN companies[logs[i].company_id].last_scraped_at = NoTime
          ELSE /\ companies[logs[i].company_id].last_scraped_at # NoTime
               /\ companies[logs[i].company_id].last_scraped_at <= logs[i].finished_at
    /\ \A r \in Slots :
          run[r].pc = "done" =>
             \A c \in DOMAIN companies :
                companies[c].last_scraped_at # NoTime =>
                   \E i \in 1..Len(logs) :
                      logs[i].company_id = c /\ logs[i].status = "completed"

---------------------------------------------------------------------------
(* Claims about what a run writes *)

\* C21: every scrape_logs row a step appends has status completed or error and
\* 0 <= roles_qualified <= roles_found; a completed row carries the number of
\* roles the search returned for the company in this attempt and the number of
\* those whose total_score is >= the threshold.
C21_LogCounts ==
    [][Len(logs') > Len(logs) =>
          LET row == logs'[Len(logs')] IN
          /\ Len(logs') = Len(logs) + 1
          /\ row.status \in {"completed", "error"}
          /\ 0 <= row.roles_qualified
          /\ row.roles_qualified <= row.roles_found
          /\ \A r \in Slots :
                (LogCompleted(r) /\ row.status = "completed") =>
                   /\ row.company_id = Company(r).id
                   /\ row.roles_found = Len(run[r].found)
                   /\ Len(run[r].scored) = Len(run[r].found)
                   /\ row.roles_qualified =
                         Cardinality({j \in 1..Len(run[r].scored) :
                            run[r].scored[j].result.total_score >= SCORE_THRESHOLD})]_vars

\* C21 witness: a completed row for a search that returned two roles of which one
\* scored at the threshold and one below
C21_Witness ==
    \E i \in 1..Len(logs) :
        /\ logs[i].status = "completed"
        /\ logs[i].roles_found = 2
        /\ logs[i].roles_qualified = 1
        /\ \E j \in 1..Len(roles) :
              roles[j].company_id = logs[i].company_id /\ roles[j].score = SCORE_THRESHOLD
        /\ \E j \in 1..Len(roles) :
              roles[j].company_id = logs[i].company_id /\ roles[j].score < SCORE_THRESHOLD

\* the companies invocation r selected
Selected(r) == {run[r].companies[i] : i \in DOMAIN run[r].companies}

\* C22: an invocation selects only companies that are active when it lists them
\* and, if it is scoped, the company of its filter; a last_scraped_at that
\* changes, a role that is inserted or updated and a scrape_logs row that is
\* appended belong to a company an invocation selected (the row to one its writer
\* selected); a scoped invocation whose company is inactive or unknown selects
\* nothing, goes straight to its end, and its end leaves is_running false.
C22_OnlySelectedCompanies ==
    [][/\ \A r \in Slots :
             ListCompanies(r) =>
                /\ \A i \in DOMAIN run'[r].companies :
                      /\ run'[r].companies[i] \in DOMAIN companies
                      /\ companies[run'[r].companies[i]].active = 1
                      /\ run[r].filter # 0 => run'[r].companies[i] = run[r].filter
                /\ (/\ run[r].filter # 0
                    /\ \/ run[r].filter \notin DOMAIN companies
                       \/ companies[run[r].filter].active = 0)
                   => (run'[r].companies = <<>> /\ run'[r].pc = "finish")
       /\ \A r \in Slots :
             (Finish(r) /\ run[r].kind = "manual") => ~status'.is_running
       /\ \A c \in DOMAIN companies :
             companies'[c].last_scraped_at # companies[c].last_scraped_at
                => \E r \in Slots : c \in Selected(r)
       /\ \A i \in 1..Len(roles') :
             (i > Len(roles) \/ roles'[i] # roles[i])
                => \E r \in Slots : roles'[i].company_id \in Selected(r)
       /\ \A i \in (Len(logs) + 1)..Len(logs') :
             logs'[i].company_id \in Selected(logs'[i].by_run)]_vars

\* C22 witness: a manual invocation scoped to a deactivated company has ended; it
\* selected nothing and wrote no row, the company has no role and no stamp, and
\* the flag is idle
C22_Witness ==
    \E r \in Slots :
        /\ run[r].kind = "manual" /\ run[r].pc = "done"
        /\ run[r].filter = NumCompanies
        /\ companies[NumCompanies].active = 0
        /\ run[r].companies = <<>>
        /\ RowsOf(logs, r) = <<>>
        /\ companies[NumCompanies].last_scraped_at = NoTime
        /\ \A i \in 1..Len(roles) : roles[i].company_id # NumCompanies
        /\ ~status.is_running

\* the company invocation r is at
AtCompany(r) == run[r].companies[run[r].ci]

\* C23: an invocation walks its company list from the first entry to the last,
\* one entry at a time, and never goes back.  At each entry the steps follow in
\* this order: the search; then, if it returned, one scoring answer per role
\* found; then the upserts of the scored roles in order; then the
\* last_scraped_at stamp; then the completed scrape_logs row.  A failure leads to
\* the error row and then to the next entry, not to the search of the same
\* entry.  A company whose search failed has no scored role and no upsert.
\* Roles, stamps and log rows are written only by the step whose turn it is, for
\* the company the invocation is at.
C23_SequentialCompanies ==
    [][/\ \A r \in Slots :
             LET p == run[r].pc
                 q == run'[r].pc IN
             run'[r] # run[r] =>
                /\ p = "list" => /\ q \in {"search", "finish", "crashed"}
                                 /\ q = "search" => run'[r].ci = 1
                /\ p = "search" => q \in {"score", "log_error"}
                /\ p = "score" => /\ q \in {"upsert", "stamp"}
                                  /\ run'[r].found = run[r].found
                                  /\ Len(run'[r].scored) = Len(run[r].found)
                                  /\ run'[r].ri = 1
                /\ p = "upsert" => /\ q \in {"upsert", "stamp", "log_error"}
                                   /\ q # "log_error" =>
                                         /\ run'[r].ri = run[r].ri + 1
                                         /\ run'[r].upserted = 1..run[r].ri
                                   /\ q = "stamp" => run[r].ri = Len(run[r].scored)
                /\ p = "stamp" => q \in {"log", "log_error"}
                /\ p = "log" => q \in {"search", "finish", "log_error"}
                /\ p = "log_error" => q \in {"search", "finish", "crashed"}
                /\ p \in {"search", "score", "upsert", "stamp"} =>
                      /\ run'[r].ci = run[r].ci
                      /\ run'[r].companies = run[r].companies
                /\ (p \in {"log", "log_error"} /\ q \in {"search", "finish"}) =>
                      /\ run'[r].ci = run[r].ci + 1
                      /\ run'[r].companies = run[r].companies
                      /\ q = "finish" <=> run[r].ci = Len(run[r].companies)
                /\ q = "search" =>
                      /\ run'[r].ci \in 1..Len(run'[r].companies)
                      /\ run'[r].ci \notin run'[r].search_failed
                      /\ run'[r].found = <<>> /\ run'[r].scored = <<>>
                      /\ run'[r].upserted = {}
                /\ (p = "search" /\ q = "log_error") =>
                      /\ run'[r].ci \in run'[r].search_failed
                      /\ run'[r].found = <<>> /\ run'[r].scored = <<>>
                      /\ run'[r].upserted = {}
       /\ roles' # roles =>
             \E r \in Slots :
                /\ run[r].pc = "upsert" /\ run'[r].upserted # run[r].upserted
                /\ \A i \in 1..Len(roles') :
                      (i > Len(roles) \/ roles'[i] # roles[i])
                         => roles'[i].company_id = AtCompany(r)
       /\ companies' # companies =>
             \E r \in Slots :
                /\ run[r].pc = "stamp" /\ run'[r].pc = "log"
                /\ run[r].upserted = 1..Len(run[r].scored)
                /\ \A c \in DOMAIN companies :
                      companies'[c] # companies[c] => c = AtCompany(r)
       /\ logs' # logs =>
             \E r \in Slots :
                /\ run[r].pc \in {"log", "log_error"}
                /\ run'[r].pc \in {"search", "finish"}
                /\ Len(logs') = Len(logs) + 1
                /\ logs'[Len(logs')].by_run = r
                /\ logs'[Len(logs')].company_id = AtCompany(r)
                /\ logs'[Len(logs')].status = "completed" <=> run[r].pc = "log"]_vars

\* C23 witness: an invocation over two companies has ended; the search of the
\* first failed, the second went through with at least one role; the log holds
\* the error row of the first and then the completed row of the second, the roles
\* and the stamp are the second's
C23_Witness ==
    \E r \in Slots :
        /\ run[r].pc = "done"
        /\ Len(run[r].companies) = 2
        /\ run[r].search_failed = {1}
        /\ Len(RowsOf(logs, r)) = 2
        /\ RowsOf(logs, r)[1].status = "error"
        /\ RowsOf(logs, r)[1].company_id = run[r].companies[1]
        /\ RowsOf(logs, r)[2].status = "completed"
        /\ RowsOf(logs, r)[2].company_id = run[r].companies[2]
        /\ RowsOf(logs, r)[2].roles_found >= 1
        /\ roles # <<>>
        /\ \A i \in 1..Len(roles) : roles[i].company_id = run[r].companies[2]
        /\ companies[run[r].companies[1]].last_scraped_at = NoTime
        /\ companies[run[r].companies[2]].last_scraped_at # NoTime

\* C24: when an invocation, manual or scheduled, upserts a discovered role, the
\* row it inserts or updates has posted_date NULL if the role's posted_date is
\* absent, empty or "Not specified", and the value the search returned otherwise;
\* and no role in the store has posted_date "Not specified".
C24_StoredPostedDate ==
    [][\A r \in Slots :
          (UpsertNext(r) /\ run'[r].upserted # run[r].upserted) =>
             LET role == run[r].scored[run[r].ri].role
                 raw_posted == role.posted_date
                 expected == IF raw_posted \in {MISSING, NULL, "", "Not specified"}
                             THEN NULL ELSE raw_posted
             IN  /\ \A i \in 1..Len(roles') :
                       (i > Len(roles) \/ roles'[i] # roles[i])
                          => roles'[i].posted_date = expected
                 /\ \A i \in 1..Len(roles') :
                       roles'[i].posted_date # "Not specified"]_vars

---------------------------------------------------------------------------
(* A role's life: direct upserts, status updates and time passing, at any
   moment before, during and after a manual scrape run of the first company. *)

\* the same opening at the first and at the last company
LifecycleUpserts ==
    {role_args(1, RolePM, SCORE_THRESHOLD - 1, "{b}", NULL),
     role_args(NumCompanies, RolePM, SCORE_THRESHOLD - 1, "{b}", NULL)}

InitLifecycle == InitRun

NextLifecycle ==
    \/ \E a \in LifecycleUpserts : UpsertRole(a)
    \/ \E id \in 1..MaxRoleRows, st \in {"applied", "dismissed", "archived"} :
          update_role_status(id, st)
    \/ Tick
    \/ trigger_scrape(1)
    \/ \E r \in Slots : StartRun(r)
    \/ \E r \in Slots : ListCompanies(r)
    \/ \E r \in Slots : Search(r, {Raise("HTTPError"), Return(<<RolePM>>)})
    \/ \E r \in Slots : Score(r, {Return(GoodResult)})
    \/ \E r \in Slots : UpsertNext(r)
    \/ \E r \in Slots : Stamp(r)
    \/ \E r \in Slots : LogCompleted(r)
    \/ \E r \in Slots : LogError(r)
    \/ \E r \in Slots : Finish(r)

SpecLifecycle == InitLifecycle /\ [][NextLifecycle]_vars

(* Claims about a role's status *)

\* C25: after every step of upserts, status updates and scrape runs, each role's
\* status is new, applied or dismissed; a role with status new has no applied_at
\* and a role with status applied has one; a role whose status was not new
\* before the step is the same role and is not new after it.
C25_StatusLifecycle ==
    [][\A i \in 1..Len(roles') :
          /\ roles'[i].status \in {"new", "applied", "dismissed"}
          /\ roles'[i].status = "new" => roles'[i].applied_at = NoTime
          /\ roles'[i].status = "applied" => roles'[i].applied_at # NoTime
          /\ (i <= Len(roles) /\ roles[i].status # "new") =>
                /\ roles'[i].id = roles[i].id
                /\ roles'[i].status # "new"]_vars

\* C25 witness: a scrape run has just upserted a role that was applied before:
\* the upsert renewed last_seen_at and the score, the role is still applied and
\* keeps its earlier applied_at; another role is dismissed
C25_Witness ==
    \E r \in Slots :
        /\ run[r].pc = "stamp" /\ run[r].upserted # {}
        /\ \E i \in 1..Len(roles) :
              /\ roles[i].company_id = Company(r).id
              /\ roles[i].title = run[r].found[1].title
              /\ roles[i].status = "applied"
              /\ roles[i].applied_at # NoTime
              /\ roles[i].applied_at < roles[i].last_seen_at
              /\ roles[i].score = run[r].scored[1].result.total_score
        /\ \E j \in 1..Len(roles) : roles[j].status = "dismissed"

=============================================================================
